---- MODULE Spec2Model ----
(***************************************************************************)
(* Model of setup_environment.py: the environment checker of the market    *)
(* basket analysis exercise.  main() runs six steps in sequence and prints *)
(* a summary.  The environment (interpreter version, importability of the  *)
(* packages, the installer's exit status, the filesystem, the dataset      *)
(* file) is observed step by step; every observation is recorded in a      *)
(* variable of its own so that the properties can speak about it.          *)
(***************************************************************************)
EXTENDS Integers, Sequences, FiniteSets, TLC

VARIABLES
  pc,                 \* the function main() is executing, "done" or "crashed"
  python_version,     \* sys.version_info as <<major, minor, micro>>
  python_ok,          \* main: python_ok
  pkg_i,              \* check_and_install_packages: position of the for loop
  installed_packages, \* check_and_install_packages: installed_packages
  failed_packages,    \* check_and_install_packages: failed_packages
  presence,           \* observed outcome of __import__(package), per package
  pip_calls,          \* installer invocations so far: <<[arg, result]>>
  fs,                 \* the filesystem below the working directory
  dir_i,              \* create_project_structure: position of the for loop
  created_dirs,       \* create_project_structure: created_dirs
  reported_dirs,      \* paths for which "Failed to create" was printed
  ds_env,             \* observed state of groceries.csv
  dataset_ok,         \* main: dataset_ok
  requirements_txt,   \* the file requirements.txt
  wr_env,             \* observed outcome of writing requirements.txt
  requirements_ok,    \* main: requirements_ok
  imp_i,              \* test_imports: position of the for loop
  successful_imports, \* test_imports: successful_imports
  failed_imports,     \* test_imports: failed_imports
  exec_result,        \* observed outcome of exec(import_statement), per label
  printed,            \* blocks printed from the summary banner on
  tally,              \* the numbers of the summary lines
  exit_status,        \* -1 while running, then the process exit status
  escaped,            \* the function an uncaught exception escaped from
  pass,               \* ordinal of the current pass over the filesystem steps
  prev                \* the files when this pass began, and the results of
                      \* the pass before it (none before the first pass)

vars == << pc, python_version, python_ok, pkg_i, installed_packages,
           failed_packages, presence, pip_calls, fs, dir_i, created_dirs,
           reported_dirs, ds_env, dataset_ok, requirements_txt, wr_env,
           requirements_ok, imp_i, successful_imports, failed_imports,
           exec_result, printed, tally, exit_status, escaped, pass,
           prev >>

-----------------------------------------------------------------------------
(* Bounds of the model *)

\* at most this many environment observations of one run are not nominal
MaxFaults == 2
\* interpreter versions 1.0.0 .. MaxMajor.MaxMinor.MaxMicro
MaxMajor == 4
MaxMinor == 12
MaxMicro == 1
\* the filesystem steps are run this many times in succession
MaxPasses == 2

-----------------------------------------------------------------------------
(* Fixed tables of the program *)

MinMajor == 3
MinMinor == 8

required_packages ==
  << [package |-> "pandas",     pip_name |-> "pandas>=1.5.0"],
     [package |-> "numpy",      pip_name |-> "numpy>=1.21.0"],
     [package |-> "matplotlib", pip_name |-> "matplotlib>=3.5.0"],
     [package |-> "seaborn",    pip_name |-> "seaborn>=0.11.0"],
     [package |-> "mlxtend",    pip_name |-> "mlxtend>=0.21.0"],
     [package |-> "jupyter",    pip_name |-> "jupyter>=1.0.0"],
     [package |-> "notebook",   pip_name |-> "notebook>=6.4.0"] >>

directories ==
  << "outputs", "outputs/figures", "outputs/results", "temp_files" >>

import_tests ==
  << [name |-> "pandas",     import_statement |-> "import pandas as pd"],
     [name |-> "numpy",      import_statement |-> "import numpy as np"],
     [name |-> "matplotlib", import_statement |-> "import matplotlib.pyplot as plt"],
     [name |-> "seaborn",    import_statement |-> "import seaborn as sns"],
     [name |-> "mlxtend frequent_patterns",
      import_statement |-> "from mlxtend.frequent_patterns import apriori, association_rules"],
     [name |-> "mlxtend preprocessing",
      import_statement |-> "from mlxtend.preprocessing import TransactionEncoder"] >>

\* the text written to requirements.txt, line by line
requirements_content ==
  << [kind |-> "comment", text |-> "# Market Basket Analysis Requirements"],
     [kind |-> "comment", text |-> "# Course: MSDA9223 - Data Mining and Information Retrieval"],
     [kind |-> "blank",   text |-> ""],
     [kind |-> "req",     text |-> "pandas>=1.5.0"],
     [kind |-> "req",     text |-> "numpy>=1.21.0"],
     [kind |-> "req",     text |-> "matplotlib>=3.5.0"],
     [kind |-> "req",     text |-> "seaborn>=0.11.0"],
     [kind |-> "req",     text |-> "mlxtend>=0.21.0"],
     [kind |-> "req",     text |-> "jupyter>=1.0.0"],
     [kind |-> "req",     text |-> "notebook>=6.4.0"],
     [kind |-> "blank",   text |-> ""],
     [kind |-> "comment", text |-> "# Optional packages for enhanced analysis"],
     [kind |-> "req",     text |-> "plotly>=5.0.0"],
     [kind |-> "req",     text |-> "wordcloud>=1.8.0"] >>

-----------------------------------------------------------------------------
(* Helpers *)

Range(s) == { s[k] : k \in 1..Len(s) }

Packages == { required_packages[k].package : k \in 1..Len(required_packages) }
Labels   == { import_tests[k].name : k \in 1..Len(import_tests) }
Dirs     == Range(directories)

\* number of observations of this run that are not the nominal outcome
Faults ==
    Cardinality({ p \in Packages : presence[p] \notin {"unchecked", "ok"} })
  + Cardinality({ l \in Labels : exec_result[l] \notin {"untested", "ok"} })
  + (IF ds_env \in {"unseen", "present"} THEN 0 ELSE 1)
  + (IF wr_env \in {"unseen", "ok"} THEN 0 ELSE 1)

-----------------------------------------------------------------------------
(* check_python_version *)

VersionCompatible_MinorOnly(v) == v[1] >= MinMajor /\ v[2] >= MinMinor

\* line 22, negated: the else branch is taken
VersionCompatible(v) ==
  ~ (v[1] < MinMajor \/ (v[1] = MinMajor /\ v[2] < MinMinor))

check_python_version ==
  /\ pc = "check_python_version"
  /\ python_ok' = VersionCompatible(python_version)
  /\ pc' = "check_and_install_packages"
  /\ UNCHANGED << python_version, pkg_i, installed_packages, failed_packages,
                  presence, pip_calls, fs, dir_i, created_dirs,
                  reported_dirs, ds_env, dataset_ok, requirements_txt, wr_env,
                  requirements_ok, imp_i, successful_imports, failed_imports,
                  exec_result, printed, tally, exit_status, escaped, pass,
                  prev >>

-----------------------------------------------------------------------------
(* An exception nobody catches: the interpreter prints the traceback and   *)
(* the process ends with status 1; nothing after the raising statement runs *)

Uncaught(where) ==
  /\ pc' = "crashed"
  /\ escaped' = where
  /\ exit_status' = 1

-----------------------------------------------------------------------------
(* install_package / check_and_install_packages *)

PipOutcomes    == {"exit0", "exit1", "OSError"}

\* subprocess.check_call: returns on exit status 0, raises CalledProcessError
\* on any other status, raises OSError when the child cannot be started
install_package(result) ==
  CASE result = "exit0" -> "True"
    [] result = "exit1" -> "False"
    [] OTHER            -> "OSError"

InstallArg_Bare(entry) == entry.package

\* line 62: install_package(pip_name)
InstallArg(entry) == entry.pip_name

RecordPackage_Both(lists, package, ok) ==
  [ installed |-> Append(lists.installed, package),
    failed    |-> IF ok THEN lists.failed ELSE Append(lists.failed, package) ]

\* lines 59, 64, 67: the package goes to exactly one of the two lists
RecordPackage(lists, package, ok) ==
  IF ok
  THEN [ installed |-> Append(lists.installed, package), failed |-> lists.failed ]
  ELSE [ installed |-> lists.installed, failed |-> Append(lists.failed, package) ]

PackageLists == [ installed |-> installed_packages, failed |-> failed_packages ]

PackagesRest ==
  UNCHANGED << python_version, python_ok, fs, dir_i, created_dirs,
               reported_dirs, ds_env, dataset_ok, requirements_txt, wr_env,
               requirements_ok, imp_i, successful_imports, failed_imports,
               exec_result, printed, tally, pass, prev >>

\* one iteration of the for loop of lines 54-67
check_and_install_packages ==
  /\ pc = "check_and_install_packages"
  /\ pkg_i <= Len(required_packages)
  /\ LET entry == required_packages[pkg_i]
         Recorded(ok) == RecordPackage(PackageLists, entry.package, ok)
     IN
     \/ \* __import__ succeeds
        /\ presence' = [presence EXCEPT ![entry.package] = "ok"]
        /\ installed_packages' = Recorded(TRUE).installed
        /\ failed_packages' = Recorded(TRUE).failed
        /\ pkg_i' = pkg_i + 1
        /\ UNCHANGED << pc, pip_calls, exit_status, escaped >>
     \/ \* __import__ raises ImportError: install_package(pip_name) is called
        /\ Faults < MaxFaults
        /\ presence' = [presence EXCEPT ![entry.package] = "ImportError"]
        /\ \E result \in PipOutcomes :
             /\ pip_calls' = Append(pip_calls,
                                    [arg |-> InstallArg(entry), result |-> result])
             /\ IF install_package(result) = "OSError"
                THEN /\ Uncaught("install_package")
                     /\ UNCHANGED << pkg_i, installed_packages, failed_packages >>
                ELSE /\ installed_packages' =
                          Recorded(install_package(result) = "True").installed
                     /\ failed_packages' =
                          Recorded(install_package(result) = "True").failed
                     /\ pkg_i' = pkg_i + 1
                     /\ UNCHANGED << pc, exit_status, escaped >>
     \/ \* __import__ raises something that is not an ImportError
        /\ Faults < MaxFaults
        /\ presence' = [presence EXCEPT ![entry.package] = "OtherError"]
        /\ Uncaught("check_and_install_packages")
        /\ UNCHANGED << pkg_i, installed_packages, failed_packages, pip_calls >>
  /\ PackagesRest

\* line 69
check_and_install_packages_return ==
  /\ pc = "check_and_install_packages"
  /\ pkg_i > Len(required_packages)
  /\ pc' = "create_project_structure"
  /\ UNCHANGED << pkg_i, installed_packages, failed_packages, presence,
                  pip_calls, exit_status, escaped >>
  /\ PackagesRest

-----------------------------------------------------------------------------
(* create_project_structure *)

\* a filesystem: what each path is, and which directories can be written to
Parent(p) == IF p \in {"outputs/figures", "outputs/results"} THEN "outputs" ELSE "."

KindOf(f, p) == IF p = "." THEN "dir" ELSE f.kind[p]

\* os.mkdir(p): the error it fails with, or the filesystem with p created
OsMkdir(f, p) ==
  CASE KindOf(f, Parent(p)) = "absent" -> [err |-> "ENOENT",  fs |-> f]
    [] KindOf(f, Parent(p)) = "file"   -> [err |-> "ENOTDIR", fs |-> f]
    [] KindOf(f, p) # "absent"         -> [err |-> "EEXIST",  fs |-> f]
    [] ~ f.w[Parent(p)]                -> [err |-> "EACCES",  fs |-> f]
    [] OTHER -> [err |-> "none",
                 fs  |-> [kind |-> [f.kind EXCEPT ![p] = "dir"],
                          w    |-> [f.w EXCEPT ![p] = TRUE]]]

RECURSIVE Mkdir(_, _, _, _)
\* pathlib.Path.mkdir(parents, exist_ok): a missing parent is created first,
\* any other error is raised unless exist_ok and the path is a directory
Mkdir(f, p, parents, exist_ok) ==
  LET r == OsMkdir(f, p) IN
  CASE r.err = "none" -> [ok |-> TRUE, fs |-> r.fs]
    [] r.err = "ENOENT" ->
         IF ~ parents \/ Parent(p) = "."
         THEN [ok |-> FALSE, fs |-> f]
         ELSE LET up == Mkdir(f, Parent(p), TRUE, TRUE) IN
              IF up.ok THEN Mkdir(up.fs, p, FALSE, exist_ok)
                       ELSE [ok |-> FALSE, fs |-> up.fs]
    [] OTHER ->
         IF exist_ok /\ KindOf(f, p) = "dir"
         THEN [ok |-> TRUE, fs |-> f]
         ELSE [ok |-> FALSE, fs |-> f]

PathMkdir_NoExistOk(f, p) == Mkdir(f, p, TRUE, FALSE)

\* line 91: dir_path.mkdir(parents=True, exist_ok=True)
PathMkdir(f, p) == Mkdir(f, p, TRUE, TRUE)

DirsRest ==
  UNCHANGED << python_version, python_ok, pkg_i, installed_packages,
               failed_packages, presence, pip_calls, ds_env, dataset_ok,
               requirements_txt, wr_env, requirements_ok, imp_i,
               successful_imports, failed_imports, exec_result, printed,
               tally, exit_status, escaped, pass, prev >>

\* one iteration of the for loop of lines 88-95
create_project_structure ==
  /\ pc = "create_project_structure"
  /\ dir_i <= Len(directories)
  /\ LET dir_name == directories[dir_i]
         made == PathMkdir(fs, dir_name)
     IN /\ fs' = made.fs
        /\ created_dirs' = IF made.ok THEN Append(created_dirs, dir_name)
                                      ELSE created_dirs
        /\ reported_dirs' = IF made.ok THEN reported_dirs
                                       ELSE Append(reported_dirs, dir_name)
  /\ dir_i' = dir_i + 1
  /\ UNCHANGED pc
  /\ DirsRest

\* line 97; then the caller goes on with its next statement
create_project_structure_return(next) ==
  /\ pc = "create_project_structure"
  /\ dir_i > Len(directories)
  /\ pc' = next
  /\ UNCHANGED << fs, dir_i, created_dirs, reported_dirs >>
  /\ DirsRest

-----------------------------------------------------------------------------
(* check_dataset *)

DatasetRest ==
  UNCHANGED << python_version, python_ok, pkg_i, installed_packages,
               failed_packages, presence, pip_calls, fs, dir_i,
               created_dirs, reported_dirs, requirements_txt, wr_env,
               requirements_ok, imp_i, successful_imports, failed_imports,
               exec_result, printed, tally, pass, prev >>

check_dataset ==
  /\ pc = "check_dataset"
  /\ \/ \* exists() is true, stat() and the read of the first line succeed
        /\ ds_env' = "present"
        /\ dataset_ok' = TRUE
        /\ pc' = "create_requirements_file"
        /\ UNCHANGED << exit_status, escaped >>
     \/ \* line 105: exists() is false
        /\ Faults < MaxFaults
        /\ ds_env' = "absent"
        /\ dataset_ok' = FALSE
        /\ pc' = "create_requirements_file"
        /\ UNCHANGED << exit_status, escaped >>
     \/ \* line 106: exists() was true and stat() raises, outside any try
        /\ Faults < MaxFaults
        /\ ds_env' = "vanished"
        /\ Uncaught("check_dataset")
        /\ UNCHANGED dataset_ok
     \/ \* lines 111-118: open() or readline() raises, inside the try
        /\ Faults < MaxFaults
        /\ ds_env' = "unreadable"
        /\ dataset_ok' = FALSE
        /\ pc' = "create_requirements_file"
        /\ UNCHANGED << exit_status, escaped >>
  /\ DatasetRest

-----------------------------------------------------------------------------
(* create_requirements_file *)

OpenForWriting_Append(file) == [exists |-> TRUE, lines |-> file.lines]

\* line 145: open("requirements.txt", "w") creates the file or empties it
OpenForWriting(file) == [exists |-> TRUE, lines |-> <<>>]

\* line 146: f.write(requirements_content)
WriteTo(file, content) == [exists |-> TRUE, lines |-> file.lines \o content]

ManifestRest ==
  UNCHANGED << python_version, python_ok, pkg_i, installed_packages,
               failed_packages, presence, pip_calls, fs, dir_i,
               created_dirs, reported_dirs, ds_env, dataset_ok, imp_i,
               successful_imports, failed_imports, exec_result, printed,
               tally, exit_status, escaped, pass, prev >>

\* lines 144-151; budget says whether a failure still fits the fault bound
create_requirements_file(next, budget) ==
  /\ pc = "create_requirements_file"
  /\ \/ \* open and write succeed
        /\ wr_env' = "ok"
        /\ requirements_txt' =
             WriteTo(OpenForWriting(requirements_txt), requirements_content)
        /\ requirements_ok' = TRUE
     \/ \* open() raises: the file is as it was
        /\ budget
        /\ wr_env' = "open_error"
        /\ UNCHANGED requirements_txt
        /\ requirements_ok' = FALSE
     \/ \* write() raises after open() emptied the file
        /\ budget
        /\ wr_env' = "write_error"
        /\ requirements_txt' = OpenForWriting(requirements_txt)
        /\ requirements_ok' = FALSE
  /\ pc' = next
  /\ ManifestRest

-----------------------------------------------------------------------------
(* test_imports *)

\* lines 173, 176: the label goes to exactly one of the two lists
RecordImport(lists, name, ok) ==
  IF ok
  THEN [ successful |-> Append(lists.successful, name), failed |-> lists.failed ]
  ELSE [ successful |-> lists.successful, failed |-> Append(lists.failed, name) ]

ImportLists == [ successful |-> successful_imports, failed |-> failed_imports ]

ImportsRest ==
  UNCHANGED << python_version, python_ok, pkg_i, installed_packages,
               failed_packages, presence, pip_calls, fs, dir_i,
               created_dirs, reported_dirs, ds_env, dataset_ok,
               requirements_txt, wr_env, requirements_ok, printed, tally,
               pass, prev >>

\* one iteration of the for loop of lines 169-176
test_imports ==
  /\ pc = "test_imports"
  /\ imp_i <= Len(import_tests)
  /\ LET name == import_tests[imp_i].name
         Recorded(ok) == RecordImport(ImportLists, name, ok)
     IN
     \/ \* exec(import_statement) succeeds
        /\ exec_result' = [exec_result EXCEPT ![name] = "ok"]
        /\ successful_imports' = Recorded(TRUE).successful
        /\ failed_imports' = Recorded(TRUE).failed
        /\ imp_i' = imp_i + 1
        /\ UNCHANGED << pc, exit_status, escaped >>
     \/ \* exec raises ImportError
        /\ Faults < MaxFaults
        /\ exec_result' = [exec_result EXCEPT ![name] = "ImportError"]
        /\ successful_imports' = Recorded(FALSE).successful
        /\ failed_imports' = Recorded(FALSE).failed
        /\ imp_i' = imp_i + 1
        /\ UNCHANGED << pc, exit_status, escaped >>
     \/ \* exec raises something that is not an ImportError
        /\ Faults < MaxFaults
        /\ exec_result' = [exec_result EXCEPT ![name] = "OtherError"]
        /\ Uncaught("test_imports")
        /\ UNCHANGED << imp_i, successful_imports, failed_imports >>
  /\ ImportsRest

\* line 178
test_imports_return ==
  /\ pc = "test_imports"
  /\ imp_i > Len(import_tests)
  /\ pc' = "summary"
  /\ UNCHANGED << imp_i, successful_imports, failed_imports, exec_result,
                  exit_status, escaped >>
  /\ ImportsRest

-----------------------------------------------------------------------------
(* main: the summary, lines 221-241, and the normal end of the process *)

SetupSuccessful_NoDataset(failed_pk, failed_im, ds_ok) ==
  failed_pk = <<>> /\ failed_im = <<>>

SetupSuccessful_MissingNot(failed_pk, failed_im, ds_ok) ==
  failed_pk # <<>> /\ failed_im = <<>> /\ ds_ok

\* line 237
SetupSuccessful(failed_pk, failed_im, ds_ok) ==
  failed_pk = <<>> /\ failed_im = <<>> /\ ds_ok

\* lines 225-230
SummaryTally ==
  [ python_ok    |-> python_ok,
    packages     |-> << Len(installed_packages),
                        Len(installed_packages) + Len(failed_packages) >>,
    directories  |-> Len(created_dirs),
    dataset      |-> dataset_ok,
    requirements |-> requirements_ok,
    imports      |-> << Len(successful_imports),
                        Len(successful_imports) + Len(failed_imports) >> ]

main_summary ==
  /\ pc = "summary"
  /\ tally' = SummaryTally
  /\ printed' =
          << "SETUP SUMMARY" >>
       \o (IF failed_packages # <<>> THEN << "Failed packages" >> ELSE <<>>)
       \o (IF failed_imports # <<>> THEN << "Failed imports" >> ELSE <<>>)
       \o (IF SetupSuccessful(failed_packages, failed_imports, dataset_ok)
           THEN << "SETUP SUCCESSFUL", "NEXT STEPS" >>
           ELSE << "Setup completed with some issues" >>)
  /\ pc' = "done"
  /\ exit_status' = 0
  /\ UNCHANGED << python_version, python_ok, pkg_i, installed_packages,
                  failed_packages, presence, pip_calls, fs, dir_i,
                  created_dirs, reported_dirs, ds_env, dataset_ok,
                  requirements_txt, wr_env, requirements_ok, imp_i,
                  successful_imports, failed_imports, exec_result, escaped,
                  pass, prev >>

-----------------------------------------------------------------------------
(* Initial states *)

Versions == (1..MaxMajor) \X (0..MaxMinor) \X (0..MaxMicro)

\* filesystems below the working directory: a path exists only inside an
\* existing directory; only "." and "outputs" can be read-only
FileSystems ==
  { f \in [ kind : [Dirs -> {"absent", "dir", "file"}],
            w    : [Dirs \cup {"."} -> BOOLEAN] ] :
      /\ \A d \in Dirs : Parent(d) # "." /\ f.kind[d] # "absent"
                           => f.kind[Parent(d)] = "dir"
      /\ \A d \in Dirs : f.kind[d] # "dir" => ~ f.w[d]
      /\ \A d \in Dirs \ {"outputs"} : f.kind[d] = "dir" => f.w[d] }

EmptyFs(cwd_writable) ==
  [ kind |-> [d \in Dirs |-> "absent"],
    w    |-> [d \in Dirs \cup {"."} |-> d = "." /\ cwd_writable] ]

\* the filesystems main() is run on: empty, empty and read-only, and one with
\* a file where temp_files should go
MainFileSystems ==
  { EmptyFs(TRUE), EmptyFs(FALSE),
    [EmptyFs(TRUE) EXCEPT !.kind["temp_files"] = "file"] }

AbsentFile == [exists |-> FALSE, lines |-> <<>>]

PriorFiles ==
  { AbsentFile,
    [exists |-> TRUE, lines |-> <<>>],
    [exists |-> TRUE, lines |-> << [kind |-> "req", text |-> "scikit-learn==1.0.2"] >>],
    [exists |-> TRUE, lines |-> requirements_content] }

\* the interpreters main() is run on
MainVersions == { <<3, 11, 0>>, <<3, 7, 1>> }

\* the state of a fresh process, before main() runs
Fresh ==
  /\ python_ok = FALSE
  /\ pkg_i = 1
  /\ installed_packages = <<>>
  /\ failed_packages = <<>>
  /\ presence = [p \in Packages |-> "unchecked"]
  /\ pip_calls = <<>>
  /\ dir_i = 1
  /\ created_dirs = <<>>
  /\ reported_dirs = <<>>
  /\ ds_env = "unseen"
  /\ dataset_ok = FALSE
  /\ wr_env = "unseen"
  /\ requirements_ok = FALSE
  /\ imp_i = 1
  /\ successful_imports = <<>>
  /\ failed_imports = <<>>
  /\ exec_result = [l \in Labels |-> "untested"]
  /\ printed = <<>>
  /\ tally = [ python_ok |-> FALSE, packages |-> <<0, 0>>, directories |-> 0,
               dataset |-> FALSE, requirements |-> FALSE, imports |-> <<0, 0>> ]
  /\ exit_status = -1
  /\ escaped = "none"
  /\ pass = 1
  /\ prev = [ fs |-> fs, created_dirs |-> <<>>,
                    requirements_txt |-> requirements_txt,
                    requirements_ok |-> FALSE ]

Init ==
  /\ pc = "check_python_version"
  /\ python_version \in MainVersions
  /\ fs \in MainFileSystems
  /\ requirements_txt \in PriorFiles
  /\ Fresh

\* main(), lines 213-241
Next ==
  \/ check_python_version
  \/ check_and_install_packages
  \/ check_and_install_packages_return
  \/ create_project_structure
  \/ create_project_structure_return("check_dataset")
  \/ check_dataset
  \/ create_requirements_file("test_imports", Faults < MaxFaults)
  \/ test_imports
  \/ test_imports_return
  \/ main_summary

Spec == Init /\ [][Next]_vars

-----------------------------------------------------------------------------
(* The version check on its own, over every version triplet of the bounds *)

InitVersion ==
  /\ pc = "check_python_version"
  /\ python_version \in Versions
  /\ fs = EmptyFs(TRUE)
  /\ requirements_txt = AbsentFile
  /\ Fresh

NextVersion == check_python_version

SpecVersion == InitVersion /\ [][NextVersion]_vars

-----------------------------------------------------------------------------
(* The two statements of main() that write to the filesystem, lines 216    *)
(* and 218, run again and again on what the pass before left behind, from  *)
(* every starting filesystem and every prior requirements.txt              *)

InitTwice ==
  /\ pc = "create_project_structure"
  /\ python_version = <<3, 11, 0>>
  /\ fs \in FileSystems
  /\ requirements_txt \in PriorFiles
  /\ Fresh

\* the script is started again: fresh locals, the files as they were left
run_again ==
  /\ pc = "pass_done"
  /\ pass < MaxPasses
  /\ pass' = pass + 1
  /\ prev' = [ fs |-> fs, created_dirs |-> created_dirs,
               requirements_txt |-> requirements_txt,
               requirements_ok |-> requirements_ok ]
  /\ dir_i' = 1
  /\ created_dirs' = <<>>
  /\ reported_dirs' = <<>>
  /\ wr_env' = "unseen"
  /\ requirements_ok' = FALSE
  /\ pc' = "create_project_structure"
  /\ UNCHANGED << python_version, python_ok, pkg_i, installed_packages,
                  failed_packages, presence, pip_calls, fs, ds_env,
                  dataset_ok, requirements_txt, imp_i, successful_imports,
                  failed_imports, exec_result, printed, tally, exit_status,
                  escaped >>

NextTwice ==
  \/ create_project_structure
  \/ create_project_structure_return("create_requirements_file")
  \/ create_requirements_file("pass_done", TRUE)
  \/ run_again

SpecTwice == InitTwice /\ [][NextTwice]_vars

-----------------------------------------------------------------------------
(* Properties *)

PipNameOf(p) ==
  (CHOOSE k \in 1..Len(required_packages) : required_packages[k].package = p)

\* the installer invocations made for package p
CallsFor(p) ==
  { k \in 1..Len(pip_calls) : pip_calls[k].arg = required_packages[PipNameOf(p)].pip_name }

\* the packages the for loop of check_and_install_packages is through with
Processed == { required_packages[k].package : k \in 1..(pkg_i - 1) }

PackagesReturned == pkg_i > Len(required_packages)
ImportsReturned  == imp_i > Len(import_tests)

SuccessPrinted ==
  "SETUP SUCCESSFUL" \in Range(printed) /\ "NEXT STEPS" \in Range(printed)
WarningPrinted == "Setup completed with some issues" \in Range(printed)

\* C1: nothing is fatal: whatever the environment does, no step aborts the
\* run, and a run that has ended has printed the summary.
C1_NothingFatal ==
  /\ pc # "crashed"
  /\ exit_status # -1 => "SETUP SUMMARY" \in Range(printed)

\* C2: the exit status of every run is 0, whatever failed inside.
C2_ExitStatusZero == exit_status \in {-1, 0}

\* C3: a run that reaches the summary prints exactly one of the two final
\* blocks, the success message with the next steps exactly when no package
\* failed, no import failed and the dataset check returned true; stated on
\* the environment: exactly when every package was importable or installed
\* with exit status 0, every import statement ran and groceries.csv was
\* present and readable.  Version, directories and manifest play no part.
C3_Verdict ==
  pc = "done" =>
    /\ SuccessPrinted # WarningPrinted
    /\ ("SETUP SUCCESSFUL" \in Range(printed)) = ("NEXT STEPS" \in Range(printed))
    /\ SuccessPrinted =
         (failed_packages = <<>> /\ failed_imports = <<>> /\ dataset_ok)
    /\ SuccessPrinted =
         /\ \A p \in Packages :
              \/ presence[p] = "ok"
              \/ \E k \in CallsFor(p) : pip_calls[k].result = "exit0"
         /\ \A l \in Labels : exec_result[l] = "ok"
         /\ ds_env = "present"

\* a successful run on an old interpreter, with no directory created and no
\* manifest written
C3_Witness ==
  /\ pc = "done"
  /\ SuccessPrinted
  /\ ~ python_ok
  /\ created_dirs = <<>>
  /\ ~ requirements_ok

\* C4: once check_and_install_packages has returned, installed and failed
\* are disjoint, hold no package twice and together hold exactly the keys of
\* required_packages; the same for test_imports and the labels of
\* import_tests; the denominators of the summary are the sizes of the tables.
C4_Partition ==
  /\ PackagesReturned =>
       /\ Range(installed_packages) \cap Range(failed_packages) = {}
       /\ Range(installed_packages) \cup Range(failed_packages) = Packages
       /\ Len(installed_packages) + Len(failed_packages) = Cardinality(Packages)
  /\ ImportsReturned =>
       /\ Range(successful_imports) \cap Range(failed_imports) = {}
       /\ Range(successful_imports) \cup Range(failed_imports) = Labels
       /\ Len(successful_imports) + Len(failed_imports) = Cardinality(Labels)
  /\ pc = "done" =>
       /\ tally.packages[2] = Len(required_packages)
       /\ tally.imports[2] = Len(import_tests)

\* a finished run in which a package and an import failed
C4_Witness ==
  /\ pc = "done"
  /\ failed_packages # <<>>
  /\ failed_imports # <<>>
  /\ installed_packages # <<>>
  /\ successful_imports # <<>>

\* C5: the dataset check never lets an exception escape and returns true
\* exactly when groceries.csv is present with its size and first line
\* readable; absence and every read error give false.
C5_DatasetCheckTotal ==
  ds_env # "unseen" =>
    /\ escaped # "check_dataset"
    /\ pc # "check_dataset"
    /\ dataset_ok = (ds_env = "present")

\* the filesystem lets every one of the four directories be made
Creatable(f) ==
  \A d \in Dirs :
    \/ f.kind[d] = "dir"
    \/ /\ f.kind[d] = "absent"
       /\ IF Parent(d) = "." THEN f.w["."]
          ELSE \/ f.kind[Parent(d)] = "dir" /\ f.w[Parent(d)]
               \/ f.kind[Parent(d)] = "absent" /\ f.w["."]

\* the run of the end-to-end success scenario
NominalRun ==
  /\ pc = "done"
  /\ python_version = <<3, 11, 0>>
  /\ \A p \in Packages : presence[p] = "ok"
  /\ Creatable(prev.fs)
  /\ ds_env = "present"
  /\ wr_env = "ok"
  /\ \A l \in Labels : exec_result[l] = "ok"

NominalOutcome ==
  /\ pip_calls = <<>>
  /\ SuccessPrinted /\ ~ WarningPrinted
  /\ failed_packages = <<>> /\ failed_imports = <<>>
  /\ tally.imports = << Len(import_tests), Len(import_tests) >>
  /\ tally.directories = Len(directories)
  /\ tally.python_ok /\ tally.dataset /\ tally.requirements

\* C6 as stated: six required packages; in the success scenario the installer
\* is never invoked, the success path is taken and the tallies show no
\* failure, packages 6/6.
C6_SixPackages ==
  NominalRun =>
    /\ Len(required_packages) = 6
    /\ tally.packages = <<6, 6>>
    /\ NominalOutcome

\* C6 amended: seven required packages and six import tests; in the success
\* scenario (version 3.11, all seven packages importable, the four
\* directories creatable, groceries.csv present and readable, the manifest
\* writable, every import statement running) the installer is never invoked,
\* the success path is taken and the tallies are packages 7/7, imports 6/6,
\* 4 directories.
C6_SevenPackages ==
  NominalRun =>
    /\ Len(required_packages) = 7
    /\ tally.packages = <<7, 7>>
    /\ tally.imports = <<6, 6>>
    /\ tally.directories = 4
    /\ NominalOutcome

C6_Witness == NominalRun /\ prev.fs = EmptyFs(TRUE)

\* create_project_structure has returned
DirsReturned ==
  dir_i > Len(directories) /\ pc \in {"create_requirements_file", "pass_done"}

\* C7: when create_project_structure returns, every path that was a directory
\* at the start is in created_dirs; every path was attempted and is either in
\* created_dirs or reported as failed, never both; every path is a directory
\* or was reported as failed; and a pass after the first ends with the same
\* filesystem and the same created_dirs as the pass before it.
C7_DirectoriesIdempotent ==
  /\ pc # "crashed"
  /\ DirsReturned =>
       /\ \A d \in Dirs : prev.fs.kind[d] = "dir" => d \in Range(created_dirs)
       /\ Range(created_dirs) \cup Range(reported_dirs) = Dirs
       /\ Range(created_dirs) \cap Range(reported_dirs) = {}
       /\ \A d \in Dirs : fs.kind[d] = "dir" <=> d \in Range(created_dirs)
       /\ \A d \in Dirs : fs.kind[d] = "dir" \/ d \in Range(reported_dirs)
       /\ pass > 1 => /\ fs = prev.fs
                      /\ created_dirs = prev.created_dirs

\* a second pass that again creates some paths and again fails on others
C7_Witness ==
  /\ DirsReturned
  /\ pass = 2
  /\ created_dirs # <<>>
  /\ reported_dirs # <<>>
  /\ prev.created_dirs = created_dirs

\* C8: the version check returns true exactly when (major, minor) is
\* lexicographically at least (3, 8), whatever micro is; either way it
\* changes nothing else and main goes on to the package step.
C8_VersionCheck ==
  pc # "check_python_version" =>
    /\ python_ok = (\/ python_version[1] > 3
                    \/ python_version[1] = 3 /\ python_version[2] >= 8)
    /\ pc = "check_and_install_packages"
    /\ exit_status = -1 /\ escaped = "none"
    /\ pkg_i = 1 /\ pip_calls = <<>> /\ fs = EmptyFs(TRUE)
    /\ requirements_txt = AbsentFile

\* version 4.x with a minor below 8 and a micro above 0 passes
C8_Witness ==
  /\ pc = "check_and_install_packages"
  /\ python_version[1] > 3 /\ python_version[2] < 8 /\ python_version[3] > 0
  /\ python_ok

OptionalExtras == { "plotly>=5.0.0", "wordcloud>=1.8.0" }

RequirementLines ==
  { k \in 1..Len(requirements_content) : requirements_content[k].kind = "req" }

\* C9: whenever create_requirements_file returns true, requirements.txt holds
\* exactly the template, whatever it held before; a write after a successful
\* write leaves the same content; and the requirement lines of the template
\* are the pip_name of every entry of required_packages and the two extras,
\* each once.
C9_ManifestOverwrite ==
  /\ (pc = "pass_done" /\ requirements_ok) =>
       /\ requirements_txt = [exists |-> TRUE, lines |-> requirements_content]
       /\ (pass > 1 /\ prev.requirements_ok) =>
            requirements_txt = prev.requirements_txt
  /\ { requirements_content[k].text : k \in RequirementLines } =
       { required_packages[k].pip_name : k \in 1..Len(required_packages) }
         \cup OptionalExtras
  /\ Cardinality(RequirementLines) =
       Len(required_packages) + Cardinality(OptionalExtras)

\* the first write replaced custom content
C9_Witness ==
  /\ pc = "pass_done"
  /\ pass = 1
  /\ requirements_ok
  /\ prev.requirements_txt.exists
  /\ prev.requirements_txt.lines \notin { <<>>, requirements_content }
  /\ requirements_txt.lines = requirements_content

\* C10: the installer is invoked at most once per package, only for a
\* package whose presence check raised ImportError, never for an importable
\* one, and with that package's pip_name; a package the loop is through with
\* is in failed exactly when its one invocation returned non-zero and in
\* installed exactly when it was importable or its invocation returned zero.
C10_InstallerCalls ==
  /\ \A k \in 1..Len(pip_calls) :
       \E p \in Packages :
         /\ pip_calls[k].arg = required_packages[PipNameOf(p)].pip_name
         /\ presence[p] = "ImportError"
  /\ \A p \in Packages :
       /\ Cardinality(CallsFor(p)) <= 1
       /\ presence[p] = "ImportError" <=> Cardinality(CallsFor(p)) = 1
       /\ presence[p] = "ok" => CallsFor(p) = {}
  /\ \A p \in Processed :
       /\ p \in Range(failed_packages) <=>
            \E k \in CallsFor(p) : pip_calls[k].result = "exit1"
       /\ p \in Range(installed_packages) <=>
            \/ presence[p] = "ok"
            \/ \E k \in CallsFor(p) : pip_calls[k].result = "exit0"

\* the loop is over; one package was installed by the installer and one
\* failed to install
C10_Witness ==
  /\ PackagesReturned
  /\ \E k \in 1..Len(pip_calls) : pip_calls[k].result = "exit0"
  /\ \E k \in 1..Len(pip_calls) : pip_calls[k].result = "exit1"
  /\ Len(failed_packages) = 1

====
